---- MODULE Spec2Model ----
(***************************************************************************)
(* A model of what-the-midi: the suffix-array wrapper (divufsort.py), the  *)
(* MIDI corpus built on it (database.py) and the one-shot matcher          *)
(* (midi-grep.py).                                                         *)
(*                                                                         *)
(* Python sequences are 0-based; TLA+ sequences are 1-based.  Offsets,     *)
(* slots and positions keep their 0-based Python values throughout, and    *)
(* element k of a Python list s is s[k + 1] here.                          *)
(***************************************************************************)
EXTENDS Integers, Sequences, FiniteSets, TLC

VARIABLES
    \* --- GeneralizedSuffixArray / MidiDataBase instance -------------------
    text,          \* self.text: the concatenated bytes
    documents,     \* self.documents: OrderedDict name -> length, as a sequence of [name, length]
    docs_names,    \* self.docs_names
    docs_offsets,  \* self.docs_offsets
    sa,            \* self.sa: None, or the ctypes int array
    pos,           \* MidiDataBase.pos: name -> ticks
    length,        \* MidiDataBase.length: name -> duration
    doc_bytes,     \* history: the bytes last added under each name
    dirty,         \* history: a document was added since the last successful generate()
    n_adds,        \* history: the number of documents added
    kind,          \* the class of the instance
    res,           \* the last call on the instance and what it produced
    \* --- SuffixArray instance ---------------------------------------------
    sarr,          \* [text, sa] of a SuffixArray object
    sres,          \* the last call on it and what it produced
    \* --- midi-grep --------------------------------------------------------
    query,         \* the parsed pattern argument
    melody,        \* args.melody
    notes_on,      \* the grouped / reduced event list of the last file
    printed        \* the positions printed for the last file, in order

gsaVars == <<text, documents, docs_names, docs_offsets, sa, pos, length, doc_bytes, dirty,
            n_adds, kind, res>>
saVars == <<sarr, sres>>
grepVars == <<query, melody, notes_on, printed>>
vars == <<gsaVars, saVars, grepVars>>

-----------------------------------------------------------------------------
(* Bounds *)

MaxText == 3        \* longest concatenated text of a corpus
MaxDocs == 2        \* number of add_document / add_midi calls on a corpus
MaxPat == 2         \* longest search pattern
MaxTextLen == 3     \* longest text of a SuffixArray object
MaxEvents == 3      \* Note On events in one file
MaxTick == 2        \* ticks are 0..MaxTick
MaxQuery == 2       \* longest query

Bytes == {0, 1}     \* the byte alphabet, the zero byte included
Names == {"a", "b"}
Pitches == {60, 64}
None == "None"

SeqsUpTo(S, n) == UNION {[1 .. k -> S] : k \in 0 .. n}
NonEmptySeqsUpTo(S, n) == UNION {[1 .. k -> S] : k \in 1 .. n}

Min(x, y) == IF x < y THEN x ELSE y

\* Python s[lo:hi] for 0 <= lo
Slice(s, lo, hi) == SubSeq(s, lo + 1, Min(hi, Len(s)))

\* Python s[lo:]
SliceFrom(s, lo) == SubSeq(s, lo + 1, Len(s))

-----------------------------------------------------------------------------
(* libdivsufsort, the C library behind the thin calls.  It takes explicit  *)
(* lengths, so the zero byte is an ordinary value.                         *)

RECURSIVE LexLess(_, _)
LexLess(a, b) ==
    IF Len(a) = 0 THEN Len(b) > 0
    ELSE IF Len(b) = 0 THEN FALSE
    ELSE IF a[1] # b[1] THEN a[1] < b[1]
    ELSE LexLess(Tail(a), Tail(b))

\* the suffix array of T: slot i holds the offset of the i-th smallest suffix
lib_divsufsort(T) ==
    [i \in 1 .. Len(T) |->
        CHOOSE o \in 0 .. Len(T) - 1 :
            Cardinality({p \in 0 .. Len(T) - 1 :
                LexLess(SliceFrom(T, p), SliceFrom(T, o))}) = i - 1]

\* the suffix at suf against P, over at most Len(P) bytes:
\* -1 the suffix sorts before P, 0 P is a prefix of it, 1 it sorts after
RECURSIVE lib_compare(_, _, _, _)
lib_compare(T, P, suf, j) ==
    IF j >= Len(P) THEN 0
    ELSE IF suf + j >= Len(T) THEN -1
    ELSE IF T[suf + j + 1] < P[j + 1] THEN -1
    ELSE IF T[suf + j + 1] > P[j + 1] THEN 1
    ELSE lib_compare(T, P, suf, j + 1)

\* first slot in [lo, hi) whose suffix does not sort before P
RECURSIVE lib_lower(_, _, _, _, _)
lib_lower(T, P, SA, lo, hi) ==
    IF lo >= hi THEN lo
    ELSE LET mid == (lo + hi) \div 2
         IN  IF lib_compare(T, P, SA[mid + 1], 0) < 0
             THEN lib_lower(T, P, SA, mid + 1, hi)
             ELSE lib_lower(T, P, SA, lo, mid)

\* first slot in [lo, hi) whose suffix sorts after P
RECURSIVE lib_upper(_, _, _, _, _)
lib_upper(T, P, SA, lo, hi) ==
    IF lo >= hi THEN lo
    ELSE LET mid == (lo + hi) \div 2
         IN  IF lib_compare(T, P, SA[mid + 1], 0) <= 0
             THEN lib_upper(T, P, SA, mid + 1, hi)
             ELSE lib_upper(T, P, SA, lo, mid)

\* sa_search(T, Tsize, P, Psize, SA, SAsize, &idx): the count and the first slot
lib_sa_search(T, P, SA, SAsize) ==
    IF Len(T) = 0 \/ SAsize = 0 THEN [count |-> 0, index |-> -1]
    ELSE IF Len(P) = 0 THEN [count |-> SAsize, index |-> 0]
    ELSE LET lb == lib_lower(T, P, SA, 0, SAsize)
             ub == lib_upper(T, P, SA, 0, SAsize)
         IN  [count |-> ub - lb, index |-> lb]

\* sufcheck: SA is a permutation of the offsets and the suffixes ascend
lib_sufcheck(T, SA) ==
    /\ {SA[i] : i \in 1 .. Len(T)} = 0 .. Len(T) - 1
    /\ \A i \in 1 .. Len(T) - 1 :
        LexLess(SliceFrom(T, SA[i]), SliceFrom(T, SA[i + 1]))

-----------------------------------------------------------------------------
(* Thin calls *)

divsufsort(T) == lib_divsufsort(T)

sufcheck(T, SA) == lib_sufcheck(T, SA)

\* a wrapper that forgets the index the library returned
sa_search_slot_noindex(i, index) == i

\* the slot read for the i-th result
sa_search_slot(i, index) == i + index

\* the generator: the library searches the Len(T) slots it is told the array has
\* (`seen`), and each item is then read from the ctypes array SA itself, which
\* raises IndexError past its end.  [items, err]
sa_search(T, pattern, SA, seen) ==
    LET r == lib_sa_search(T, pattern, seen, Len(T))
        inside(i) == 0 <= sa_search_slot(i, r.index) /\ sa_search_slot(i, r.index) < Len(SA)
        n == Cardinality({i \in 0 .. r.count - 1 : \A k \in 0 .. i : inside(k)})
    IN  [items |-> [i \in 1 .. n |-> SA[sa_search_slot(i - 1, r.index) + 1]],
         err |-> IF n < r.count THEN "IndexError" ELSE None]

-----------------------------------------------------------------------------
(* class SuffixArray *)

NoSRes == [op |-> "init", pat |-> <<>>, out |-> <<>>, err |-> None]

\* SuffixArray(text, clone): a zero-filled array, sorted unless clone
SuffixArray(T, clone) ==
    [text |-> T,
     sa |-> IF clone THEN [i \in 1 .. Len(T) |-> 0] ELSE divsufsort(T)]

SuffixArray_init(T, clone) ==
    /\ sarr' = SuffixArray(T, clone)
    /\ sres' = NoSRes
    /\ UNCHANGED <<gsaVars, grepVars>>

\* check(): True, or the exception of sufcheck
SuffixArray_check ==
    /\ sres' = [op |-> "check", pat |-> <<>>, out |-> <<>>,
                err |-> IF sufcheck(sarr.text, sarr.sa) THEN None ELSE "Exception"]
    /\ UNCHANGED <<sarr, gsaVars, grepVars>>

\* search(pattern): every index sa_search yields, in its order
SuffixArray_search(pattern) ==
    /\ sres' = [op |-> "search", pat |-> pattern,
                out |-> sa_search(sarr.text, pattern, sarr.sa, sarr.sa).items,
                err |-> sa_search(sarr.text, pattern, sarr.sa, sarr.sa).err]
    /\ UNCHANGED <<sarr, gsaVars, grepVars>>

\* merge(other): the SuffixArray of the two texts, built from scratch
SuffixArray_merge(other) ==
    /\ Len(sarr.text) + Len(other.text) <= MaxTextLen
    /\ sarr' = SuffixArray(sarr.text \o other.text, FALSE)
    /\ sres' = [NoSRes EXCEPT !.op = "merge"]
    /\ UNCHANGED <<gsaVars, grepVars>>

IdleSA ==
    /\ sarr = [text |-> <<>>, sa |-> <<>>]
    /\ sres = NoSRes

-----------------------------------------------------------------------------
(* midi-grep *)

\* a list of n zeros, with Python's r[j] read as r[j + 1]
Zeros(n) == [i \in 1 .. n |-> 0]

\* the Note On events of a file, in time order: <<tick, pitch>>
Events ==
    {e \in SeqsUpTo((0 .. MaxTick) \X Pitches, MaxEvents) :
        \A i \in 1 .. Len(e) - 1 : e[i][1] <= e[i + 1][1]}

\* itertools.groupby(notes, itemgetter(0)): runs of equal tick, <<tick, pitches>>
RECURSIVE groupby(_, _)
groupby(events, acc) ==
    IF Len(events) = 0 THEN acc
    ELSE LET e == Head(events)
             n == Len(acc)
         IN  IF n > 0 /\ acc[n][1] = e[1]
             THEN groupby(Tail(events), [acc EXCEPT ![n][2] = Append(@, e[2])])
             ELSE groupby(Tail(events), Append(acc, <<e[1], <<e[2]>>>>))

SeqMax(s) == CHOOSE x \in {s[i] : i \in 1 .. Len(s)} : \A i \in 1 .. Len(s) : s[i] <= x
SeqSet(s) == {s[i] : i \in 1 .. Len(s)}

\* melody mode: the highest note of each tick
reduce_melody(events) ==
    LET g == groupby(events, <<>>)
    IN  [i \in 1 .. Len(g) |-> <<g[i][1], SeqMax(g[i][2])>>]

\* chord mode: the set of notes of each tick
group_chords(events) ==
    LET g == groupby(events, <<>>)
    IN  [i \in 1 .. Len(g) |-> <<g[i][1], SeqSet(g[i][2])>>]

\* while j >= 0 and c != query[j]: j = r[j]
RECURSIVE kmp_back(_, _, _, _)
kmp_back(r, q, c, j) ==
    IF j >= 0 /\ c # q[j + 1] THEN kmp_back(r, q, c, r[j + 1]) ELSE j

\* the failure table: the loop over i in range(len_query)
RECURSIVE kmp_table(_, _, _, _)
kmp_table(q, i, j, r) ==
    IF i >= Len(q) THEN r
    ELSE LET j1 == kmp_back(r, q, q[i + 1], j) + 1
         IN  kmp_table(q, i + 1, j1, [r EXCEPT ![i + 2] = j1])

\* a matcher that restarts from scratch after a match
kmp_after_match_reset(r, j) == 0

\* the state after a match is yielded: j = r[j]
kmp_after_match(r, j) == r[j + 1]

\* the loop over pos in range(len(notes_on)), collecting what it yields
RECURSIVE kmp_scan(_, _, _, _, _, _)
kmp_scan(S, q, r, p, j, out) ==
    IF p >= Len(S) THEN out
    ELSE LET j1 == kmp_back(r, q, S[p + 1][2], j) + 1
         IN  IF j1 = Len(q)
             THEN kmp_scan(S, q, r, p + 1, kmp_after_match(r, j1),
                           Append(out, p - Len(q) + 1))
             ELSE kmp_scan(S, q, r, p + 1, j1, out)

kmp(S, q) ==
    LET r == kmp_table(q, 0, -1, [Zeros(Len(q) + 1) EXCEPT ![1] = -1])
    IN  kmp_scan(S, q, r, 0, 0, <<>>)

\* a window loop that runs to the end of the list
chord_range_all(n, m) == n

\* range(len(notes_on) - len(query) + 1): how many positions are tried
chord_range(n, m) == n - m + 1

\* all(n in notes for n, (_, notes) in zip(query, islice(notes_on, pos, None)))
chord_window(G, q, p) ==
    \A k \in 1 .. Min(Len(q), Len(G) - p) : q[k] \in G[p + k][2]

\* the positions chord mode prints, in order
chord_matches(G, q) ==
    LET tried == [i \in 1 .. chord_range(Len(G), Len(q)) |-> i - 1]
        hit(p) == chord_window(G, q, p)
    IN  SelectSeq(tried, hit)

\* one file with --melody=1: a line is printed for each pos that kmp yields
MelodyFile(events) ==
    /\ melody = 1
    /\ notes_on' = reduce_melody(events)
    /\ printed' = kmp(notes_on', query)
    /\ UNCHANGED <<query, melody, gsaVars, saVars>>

\* one file with --melody=0
ChordFile(events) ==
    /\ melody = 0
    /\ notes_on' = group_chords(events)
    /\ printed' = chord_matches(notes_on', query)
    /\ UNCHANGED <<query, melody, gsaVars, saVars>>

\* "".split(",") is [""]: the parsed query is never empty
GrepArgs ==
    /\ query \in NonEmptySeqsUpTo(Pitches, MaxQuery)
    /\ melody \in {0, 1}
    /\ notes_on = <<>>
    /\ printed = <<>>

IdleGrep ==
    /\ query = <<60>>
    /\ melody = 1
    /\ notes_on = <<>>
    /\ printed = <<>>

-----------------------------------------------------------------------------
(* class GeneralizedSuffixArray, and MidiDataBase on top of it *)

NoSA == [none |-> TRUE, arr |-> <<>>]
NoRet == [none |-> TRUE, val |-> <<>>]

\* what a call left behind: its arguments, the exception it raised (None: it
\* returned), the items it yielded before that, and for each item of search the
\* text index it came from
Res(op) ==
    [op |-> op, pat |-> <<>>, pat2 |-> <<>>, g |-> 0, err |-> None,
     out |-> <<>>, hits |-> <<>>, ret |-> NoRet]

\* calls on the instance are sequential: one is made once the last has returned
\* (or raised) and its result has been taken
Idle == res.op = "idle"

\* a dict, as a function on its keys
DictSet(d, k, v) == [x \in DOMAIN d \cup {k} |-> IF x = k THEN v ELSE d[x]]

\* the OrderedDict documents: a key keeps the place of its first insertion
HasDoc(docs, name) == \E i \in 1 .. Len(docs) : docs[i].name = name
DocLen(docs, name) == docs[CHOOSE i \in 1 .. Len(docs) : docs[i].name = name].length
SetDoc(docs, name, n) ==
    IF HasDoc(docs, name)
    THEN [i \in 1 .. Len(docs) |->
            IF docs[i].name = name THEN [name |-> name, length |-> n] ELSE docs[i]]
    ELSE Append(docs, [name |-> name, length |-> n])

\* s[i] with Python's negative indices
PyIndexOk(s, i) == -Len(s) <= i /\ i < Len(s)
PyAt(s, i) == IF i >= 0 THEN s[i + 1] ELSE s[Len(s) + i + 1]

\* bisect.bisect_right(a, x, lo, hi)
RECURSIVE bisect_right(_, _, _, _)
bisect_right(a, x, lo, hi) ==
    IF lo >= hi THEN lo
    ELSE LET mid == (lo + hi) \div 2
         IN  IF x < a[mid + 1] THEN bisect_right(a, x, lo, mid)
             ELSE bisect_right(a, x, mid + 1, hi)

\* a check that never raises
check_text_defined_never == TRUE

\* True, or ValueError
check_text_defined == Len(text) > 0

\* True, or ValueError: `not self.sa` holds of None and of an empty array
check_suffix_array_defined == ~sa.none /\ Len(sa.arr) > 0

\* [err, name, off]
get_document_index(text_index) ==
    LET fail(e) == [err |-> e, name |-> "", off |-> 0]
        ind == bisect_right(docs_offsets, text_index, 0, Len(docs_offsets)) - 1
    IN  IF ~check_text_defined THEN fail("ValueError")
        ELSE IF ~PyIndexOk(docs_offsets, ind) \/ ~PyIndexOk(docs_names, ind)
            THEN fail("IndexError")
        ELSE LET current_offset == PyAt(docs_offsets, ind)
                 name == PyAt(docs_names, ind)
             IN  IF ~HasDoc(documents, name) THEN fail("KeyError")
                 ELSE LET document_end == current_offset + DocLen(documents, name)
                      IN  IF ~(current_offset <= text_index /\ text_index < document_end)
                          THEN fail("AssertionError")
                          ELSE [err |-> None, name |-> name,
                                off |-> text_index - current_offset]

\* what the C library reads when told the array has Len(text) slots: the array,
\* and past its end whatever the heap holds.  The outcomes kept here are the
\* in-range fills with one repeated offset; every other outcome of the
\* out-of-bounds read is the Crash of the callers below
SeenArrays ==
    IF Len(sa.arr) >= Len(text) THEN {sa.arr}
    ELSE {sa.arr \o [i \in 1 .. (Len(text) - Len(sa.arr)) |-> v] : v \in 0 .. Len(text) - 1}

ReadsPastArray == ~sa.none /\ Len(sa.arr) < Len(text)

add_document(name, document) ==
    /\ kind = "GeneralizedSuffixArray"
    /\ Idle
    /\ n_adds < MaxDocs
    /\ Len(text) + Len(document) <= MaxText
    /\ documents' = SetDoc(documents, name, Len(document))
    /\ text' = text \o document
    /\ docs_names' = Append(docs_names, name)
    /\ docs_offsets' = Append(docs_offsets, docs_offsets[Len(docs_offsets)] + Len(document))
    /\ doc_bytes' = DictSet(doc_bytes, name, document)
    /\ dirty' = TRUE
    /\ n_adds' = n_adds + 1
    /\ res' = Res("add_document")
    /\ UNCHANGED <<sa, pos, length, kind, saVars, grepVars>>

\* parse_midi(path) gave (pitches, ticks, duration); here one tick per note
add_midi(key, pitches) ==
    /\ kind = "MidiDataBase"
    /\ Idle
    /\ n_adds < MaxDocs
    /\ Len(text) + Len(pitches) <= MaxText
    /\ documents' = SetDoc(documents, key, Len(pitches))
    /\ text' = text \o pitches
    /\ pos' = DictSet(pos, key, [i \in 1 .. Len(pitches) |-> i - 1])
    /\ length' = DictSet(length, key, Len(pitches))
    /\ doc_bytes' = DictSet(doc_bytes, key, pitches)
    /\ dirty' = TRUE
    /\ n_adds' = n_adds + 1
    /\ res' = Res("add_midi")
    /\ UNCHANGED <<docs_names, docs_offsets, sa, kind, saVars, grepVars>>

generate ==
    /\ Idle
    /\ IF ~check_text_defined
       THEN /\ res' = [Res("generate") EXCEPT !.err = "ValueError"]
            /\ UNCHANGED <<sa, dirty>>
       ELSE /\ sa' = [none |-> FALSE, arr |-> divsufsort(text)]
            /\ dirty' = FALSE
            /\ res' = Res("generate")
    /\ UNCHANGED <<text, documents, docs_names, docs_offsets, pos, length, doc_bytes,
                   n_adds, kind, saVars, grepVars>>

\* is_correct(): True, or an exception
is_correct ==
    /\ Idle
    /\ \/ /\ ~check_text_defined \/ ~check_suffix_array_defined
          /\ res' = [Res("is_correct") EXCEPT !.err = "ValueError"]
       \/ /\ check_text_defined /\ check_suffix_array_defined
          /\ \E seen \in SeenArrays :
                res' = [Res("is_correct") EXCEPT
                            !.err = IF sufcheck(text, seen) THEN None ELSE "Exception"]
       \/ /\ check_text_defined /\ check_suffix_array_defined /\ ReadsPastArray
          /\ res' = [Res("is_correct") EXCEPT !.err = "Crash"]
    /\ UNCHANGED <<text, documents, docs_names, docs_offsets, sa, pos, length, doc_bytes,
                   dirty, n_adds, kind, saVars, grepVars>>

\* the loop of search over the items of sa_search
RECURSIVE search_loop(_, _, _, _)
search_loop(pattern, items, i, acc) ==
    IF i > Len(items) THEN acc
    ELSE LET d == get_document_index(items[i])
         IN  IF d.err # None THEN [acc EXCEPT !.err = d.err]
             ELSE IF d.off + Len(pattern) <= DocLen(documents, d.name)
             THEN search_loop(pattern, items, i + 1,
                              [acc EXCEPT !.out = Append(@, <<d.name, d.off>>),
                                          !.hits = Append(@, items[i])])
             ELSE search_loop(pattern, items, i + 1, acc)

\* GeneralizedSuffixArray.search(pattern), run to its end
search(pattern) ==
    /\ Idle
    /\ \/ /\ ~check_text_defined \/ ~check_suffix_array_defined
          /\ res' = [Res("search") EXCEPT !.pat = pattern, !.err = "ValueError"]
       \/ /\ check_text_defined /\ check_suffix_array_defined
          /\ \E seen \in SeenArrays :
                LET s == sa_search(text, pattern, sa.arr, seen)
                    r == search_loop(pattern, s.items, 1,
                                     [Res("search") EXCEPT !.pat = pattern])
                IN  res' = IF r.err = None THEN [r EXCEPT !.err = s.err] ELSE r
       \/ /\ check_text_defined /\ check_suffix_array_defined /\ ReadsPastArray
          /\ res' = [Res("search") EXCEPT !.pat = pattern, !.err = "Crash"]
    /\ UNCHANGED <<text, documents, docs_names, docs_offsets, sa, pos, length, doc_bytes,
                   dirty, n_adds, kind, saVars, grepVars>>

\* get_document_index(text_index), called from outside
locate(text_index) ==
    /\ Idle
    /\ LET d == get_document_index(text_index)
       IN  res' = [Res("get_document_index") EXCEPT
                      !.g = text_index, !.err = d.err,
                      !.out = IF d.err = None THEN <<<<d.name, d.off>>>> ELSE <<>>]
    /\ UNCHANGED <<text, documents, docs_names, docs_offsets, sa, pos, length, doc_bytes,
                   dirty, n_adds, kind, saVars, grepVars>>

\* common_prefix(shorter, longer): the loop over zip(shorter, longer); falling
\* off its end returns None
RECURSIVE common_prefix_loop(_, _, _)
common_prefix_loop(shorter, longer, i) ==
    IF i >= Min(Len(shorter), Len(longer)) THEN NoRet
    ELSE IF shorter[i + 1] # longer[i + 1]
         THEN [none |-> FALSE, val |-> Slice(shorter, 0, i)]
         ELSE common_prefix_loop(shorter, longer, i + 1)

common_prefix(shorter, longer) == common_prefix_loop(shorter, longer, 0)

\* the loop of common_substrings over zip(sa[:-1], sa[1:]): documents[name] is a
\* length, so slicing it raises TypeError before common_prefix is reached
RECURSIVE common_substrings_loop(_, _)
common_substrings_loop(i, acc) ==
    IF i >= Len(sa.arr) THEN acc
    ELSE LET c == get_document_index(sa.arr[i])
             n == get_document_index(sa.arr[i + 1])
         IN  IF c.err # None THEN [acc EXCEPT !.err = c.err]
             ELSE IF n.err # None THEN [acc EXCEPT !.err = n.err]
             ELSE IF c.name # n.name THEN [acc EXCEPT !.err = "TypeError"]
             ELSE common_substrings_loop(i + 1, acc)

common_substrings ==
    /\ Idle
    /\ res' = IF ~check_suffix_array_defined
              THEN [Res("common_substrings") EXCEPT !.err = "ValueError"]
              ELSE common_substrings_loop(1, Res("common_substrings"))
    /\ UNCHANGED <<text, documents, docs_names, docs_offsets, sa, pos, length, doc_bytes,
                   dirty, n_adds, kind, saVars, grepVars>>

\* common_prefix on the suffixes of two documents of the corpus, as
\* common_substrings means to call it
common_prefix_call(n1, o1, n2, o2) ==
    /\ Idle
    /\ n1 \in DOMAIN doc_bytes /\ n2 \in DOMAIN doc_bytes /\ n1 # n2
    /\ o1 <= Len(doc_bytes[n1]) /\ o2 <= Len(doc_bytes[n2])
    /\ LET a == SliceFrom(doc_bytes[n1], o1)
           b == SliceFrom(doc_bytes[n2], o2)
       IN  res' = [Res("common_prefix") EXCEPT
                      !.pat = a, !.pat2 = b, !.ret = common_prefix(a, b)]
    /\ UNCHANGED <<text, documents, docs_names, docs_offsets, sa, pos, length, doc_bytes,
                   dirty, n_adds, kind, saVars, grepVars>>

\* the caller takes the result of the call
Return ==
    /\ ~Idle
    /\ res' = Res("idle")
    /\ UNCHANGED <<text, documents, docs_names, docs_offsets, sa, pos, length, doc_bytes,
                   dirty, n_adds, kind, saVars, grepVars>>

\* __init__ of either class
NewCorpus ==
    /\ text = <<>>
    /\ documents = <<>>
    /\ docs_names = <<>>
    /\ docs_offsets = <<0>>
    /\ sa = NoSA
    /\ pos = <<>>
    /\ length = <<>>
    /\ doc_bytes = <<>>
    /\ dirty = FALSE
    /\ n_adds = 0
    /\ res = Res("idle")

IdleGSA ==
    /\ NewCorpus
    /\ kind = "GeneralizedSuffixArray"

-----------------------------------------------------------------------------
(* Specifications *)

Docs == SeqsUpTo(Bytes, MaxText)
Patterns == NonEmptySeqsUpTo(Bytes, MaxPat)
Texts == SeqsUpTo(Bytes, MaxTextLen)

\* a corpus: documents are added, the array is built, and the corpus is queried
Init ==
    /\ NewCorpus
    /\ kind \in {"GeneralizedSuffixArray", "MidiDataBase"}
    /\ IdleSA
    /\ IdleGrep

Next ==
    \/ \E name \in Names, document \in Docs : add_document(name, document)
    \/ \E key \in Names, pitches \in Docs : add_midi(key, pitches)
    \/ generate
    \/ is_correct
    \/ \E pattern \in Patterns : search(pattern)
    \/ \E text_index \in -1 .. MaxText : locate(text_index)
    \/ common_substrings
    \/ \E n1 \in Names, n2 \in Names, o1 \in 0 .. MaxText, o2 \in 0 .. MaxText :
            common_prefix_call(n1, o1, n2, o2)
    \/ Return

Spec == Init /\ [][Next]_vars

\* a SuffixArray object
InitSA ==
    /\ IdleGSA
    /\ IdleGrep
    /\ \E T \in Texts, clone \in BOOLEAN : sarr = SuffixArray(T, clone)
    /\ sres = NoSRes

NextSA ==
    \/ \E T \in Texts, clone \in BOOLEAN : SuffixArray_init(T, clone)
    \/ SuffixArray_check
    \/ \E pattern \in SeqsUpTo(Bytes, MaxPat) : SuffixArray_search(pattern)
    \/ \E T \in Texts : SuffixArray_merge(SuffixArray(T, FALSE))

SpecSA == InitSA /\ [][NextSA]_vars

\* one run of midi-grep over its files
InitGrep ==
    /\ IdleGSA
    /\ IdleSA
    /\ GrepArgs

NextGrep ==
    \/ \E events \in Events : MelodyFile(events)
    \/ \E events \in Events : ChordFile(events)

SpecGrep == InitGrep /\ [][NextGrep]_vars

-----------------------------------------------------------------------------
(* Properties *)

Built == ~sa.none /\ ~dirty

\* the longest common prefix of a and b
LCP(a, b) ==
    LET m == Min(Len(a), Len(b))
        k == CHOOSE k \in 0 .. m :
                /\ \A j \in 1 .. k : a[j] = b[j]
                /\ k = m \/ a[k + 1] # b[k + 1]
    IN  SubSeq(a, 1, k)

Range(s) == {s[i] : i \in 1 .. Len(s)}

\* the bytes of the stored documents, in the order of the documents
RECURSIVE CurrentBytes(_)
CurrentBytes(docs) ==
    IF Len(docs) = 0 THEN <<>>
    ELSE doc_bytes[Head(docs).name] \o CurrentBytes(Tail(docs))

RECURSIVE SumLengths(_)
SumLengths(docs) ==
    IF Len(docs) = 0 THEN 0 ELSE Head(docs).length + SumLengths(Tail(docs))

\* the entries of the boundary table that hold text index g
Entries(g) ==
    {i \in 1 .. Len(docs_offsets) - 1 : docs_offsets[i] <= g /\ g < docs_offsets[i + 1]}

\* C1: on a corpus built by add_document calls and generate(), every (name,
\* offset) that search(P) yields for a non-empty P lies inside document `name`
\* (offset + len(P) <= its length), that document's bytes there are P, and the
\* match does not run across a boundary of the table.
C1_MatchInsideOneDocument ==
    (res.op = "search" /\ Len(res.pat) > 0 /\ kind = "GeneralizedSuffixArray" /\ Built) =>
        \A i \in 1 .. Len(res.out) :
            LET name == res.out[i][1]
                off == res.out[i][2]
                g == res.hits[i]
                n == Len(res.pat)
            IN  /\ name \in DOMAIN doc_bytes
                /\ off + n <= Len(doc_bytes[name])
                /\ Slice(doc_bytes[name], off, off + n) = res.pat
                /\ \A b \in Range(docs_offsets) : ~(g < b /\ b < g + n)

\* C2: once generate() has succeeded, a document added afterwards makes search,
\* is_correct and common_substrings fail, yielding nothing, until generate() is
\* called again; and search never runs on an array whose length is not the
\* text's.
C2_AddAfterBuildInvalidates ==
    /\ (dirty /\ ~sa.none /\ res.op \in {"search", "is_correct", "common_substrings"}) =>
            (res.err # None /\ res.out = <<>>)
    /\ (res.op = "search" /\ ~sa.none /\ Len(sa.arr) # Len(text)) =>
            (res.err = "ValueError" /\ res.out = <<>>)

\* C3: whatever documents were added (new names, repeated names, empty
\* documents, add_midi), docs_offsets starts at 0, is strictly increasing, ends at
\* len(text) and has one entry more than there are documents, and docs_names
\* lists the documents in their order.
C3_BoundaryTable ==
    /\ docs_offsets[1] = 0
    /\ \A i \in 1 .. Len(docs_offsets) - 1 : docs_offsets[i] < docs_offsets[i + 1]
    /\ docs_offsets[Len(docs_offsets)] = Len(text)
    /\ Len(docs_offsets) = Len(documents) + 1
    /\ docs_names = [i \in 1 .. Len(documents) |-> documents[i].name]

\* C4: after any add_document calls the text is the bytes of the current
\* documents, one per name, in insertion order, so its length is the sum of the
\* stored lengths; and on a built corpus no match of search lies in the bytes of
\* an overwritten version of a document.
C4_ReaddingOverwrites ==
    kind = "GeneralizedSuffixArray" =>
        /\ text = CurrentBytes(documents)
        /\ Len(text) = SumLengths(documents)
        /\ (res.op = "search" /\ Built) =>
                \A i \in 1 .. Len(res.out) :
                    \A e \in Entries(res.hits[i]) :
                        \A later \in e + 1 .. Len(docs_names) :
                            docs_names[later] # docs_names[e]

\* C5: on a corpus with a non-empty text, get_document_index(g) for 0 <= g <
\* len(text) returns (name, local) for the one i with docs_offsets[i] <= g <
\* docs_offsets[i+1], name the i-th document and local = g - docs_offsets[i];
\* for any other g it raises and returns no pair.
C5_GetDocumentIndex ==
    (res.op = "get_document_index" /\ Len(text) > 0) =>
        IF 0 <= res.g /\ res.g < Len(text)
        THEN /\ res.err = None
             /\ Cardinality(Entries(res.g)) = 1
             /\ \A i \in Entries(res.g) :
                    /\ i <= Len(documents)
                    /\ res.out = <<<<documents[i].name, res.g - docs_offsets[i]>>>>
        ELSE res.err # None /\ res.out = <<>>

\* C6: generate() on a corpus to which no document was added raises and leaves
\* the index unbuilt (sa absent, text and boundary table as constructed); a
\* search on that corpus raises too and yields nothing.
C6_GenerateOnEmptyCorpusFails ==
    /\ (n_adds = 0 /\ res.op = "generate") =>
            /\ res.err = "ValueError"
            /\ sa = NoSA
            /\ text = <<>>
            /\ docs_offsets = <<0>>
    /\ (n_adds = 0 /\ res.op = "search") =>
            (res.err = "ValueError" /\ res.out = <<>> /\ sa = NoSA)

C6_Witness ==
    n_adds = 0 /\ res.op = "generate" /\ res.err = "ValueError" /\ sa = NoSA

\* C7: on a text with its sorted suffix array, SuffixArray.search(P) for a
\* non-empty P yields exactly the offsets o with text[o:o+len(P)] == P, each
\* once, in the order of the matching entries of the array; nothing when P does
\* not occur.
C7_SearchYieldsTheOccurrences ==
    (sres.op = "search" /\ Len(sres.pat) > 0 /\ sufcheck(sarr.text, sarr.sa)) =>
        LET T == sarr.text
            P == sres.pat
            occurs(o) == o + Len(P) <= Len(T) /\ Slice(T, o, o + Len(P)) = P
        IN  /\ sres.err = None
            /\ sres.out = SelectSeq(sarr.sa, occurs)
            /\ Range(sres.out) = {o \in 0 .. Len(T) - 1 : occurs(o)}
            /\ Cardinality(Range(sres.out)) = Len(sres.out)

\* two occurrences, yielded in the array's order and not in ascending order
C7_Witness ==
    /\ sres.op = "search" /\ Len(sres.pat) > 0 /\ sufcheck(sarr.text, sarr.sa)
    /\ Len(sres.out) = 2
    /\ sres.out[1] > sres.out[2]

\* C8: in melody mode, for the reduced sequence S and the query Q, kmp yields in
\* strictly ascending order exactly the indices i, 0 <= i <= len(S) - len(Q),
\* where the pitches of S[i .. i+len(Q)-1] are Q, overlapping occurrences
\* included, and nothing when Q is longer than S.
C8_KmpYieldsEveryOccurrence ==
    melody = 1 =>
        LET S == notes_on
            Q == query
            occurs(i) == /\ i + Len(Q) <= Len(S)
                         /\ \A k \in 1 .. Len(Q) : S[i + k][2] = Q[k]
        IN  /\ printed = SelectSeq([i \in 1 .. Len(S) |-> i - 1], occurs)
            /\ \A a \in 1 .. Len(printed) - 1 : printed[a] < printed[a + 1]
            /\ Len(Q) > Len(S) => printed = <<>>

\* two occurrences that overlap
C8_Witness ==
    /\ melody = 1
    /\ Len(printed) >= 2
    /\ printed[2] - printed[1] < Len(query)

\* C9: in chord mode, for the grouped sequence G and the query Q of length m, a
\* match is reported at pos exactly when 0 <= pos <= len(G) - m and Q[k] is in
\* the set of G[pos+k] for every k; each once, ascending, and never for a window
\* shorter than m.
C9_ChordWindowMatches ==
    melody = 0 =>
        LET G == notes_on
            Q == query
            occurs(p) == /\ p + Len(Q) <= Len(G)
                         /\ \A k \in 1 .. Len(Q) : Q[k] \in G[p + k][2]
        IN  /\ printed = SelectSeq([i \in 1 .. Len(G) |-> i - 1], occurs)
            /\ \A a \in 1 .. Len(printed) - 1 : printed[a] < printed[a + 1]
            /\ \A a \in 1 .. Len(printed) : printed[a] + Len(Q) <= Len(G)

\* a match through a tick that holds two notes, and a shorter window at the end
\* of the list, matching as far as it goes, that is not reported
C9_Witness ==
    /\ melody = 0
    /\ \E a \in 1 .. Len(printed) :
            \E k \in 1 .. Len(query) : Cardinality(notes_on[printed[a] + k][2]) = 2
    /\ \E p \in 0 .. Len(notes_on) - 1 :
            /\ p + Len(query) > Len(notes_on)
            /\ \A k \in 1 .. Len(notes_on) - p : query[k] \in notes_on[p + k][2]

\* the suffix of the document entry that holds text index g
EntrySuffix(g) ==
    LET i == CHOOSE i \in Entries(g) : TRUE IN Slice(text, g, docs_offsets[i + 1])

\* the slots of the array whose suffix and the next begin in different entries
CrossSlots ==
    {i \in 1 .. Len(sa.arr) - 1 :
        /\ Entries(sa.arr[i]) # {} /\ Entries(sa.arr[i + 1]) # {}
        /\ Entries(sa.arr[i]) # Entries(sa.arr[i + 1])}

RECURSIVE ExpectedCommon(_)
ExpectedCommon(i) ==
    IF i >= Len(sa.arr) THEN <<>>
    ELSE (IF i \in CrossSlots
          THEN <<LCP(EntrySuffix(sa.arr[i]), EntrySuffix(sa.arr[i + 1]))>>
          ELSE <<>>) \o ExpectedCommon(i + 1)

\* C10: common_prefix(a, b) returns the longest common prefix of a and b, also
\* when one runs out before a mismatch; and on a built corpus common_substrings
\* yields, for each pair of adjacent slots whose suffixes begin in different
\* documents, the longest common prefix of the two suffixes.
C10_CommonPrefix ==
    /\ res.op = "common_prefix" =>
            (~res.ret.none /\ res.ret.val = LCP(res.pat, res.pat2))
    /\ (res.op = "common_substrings" /\ Built /\ CrossSlots # {}) =>
            (res.err = None /\ res.out = ExpectedCommon(1))

====
